---- MODULE Spec2Model ----
(***************************************************************************)
(* A model of the three simulation components of the repository            *)
(* (AcoSimulation, WolfSimulation, BeesSimulation): the refs each          *)
(* component keeps, the animation loop that drives it (requestAnimation-   *)
(* Frame, setTimeout and the React effects that start and cancel it), and  *)
(* the per-frame handler `animate` of each.                                *)
(*                                                                         *)
(* One component is mounted in a behaviour (`mounted`).  Its props are     *)
(* `config`; every pending callback carries the `config` its closure       *)
(* captured when the component rendered.                                   *)
(*                                                                         *)
(* Numbers.  The source computes in IEEE doubles.  The model computes on   *)
(* fixed-point grids and rounds every inexact result to the nearest grid   *)
(* point, ties to even, as IEEE does at its own precision:                 *)
(*   positions, distances, scores   1 px                                   *)
(*   pheromone                      1/PHER_ONE                             *)
(*   desirability (prob)            1/PROB_ONE                             *)
(*   GWO phase timer                1/TIMER_ONE                            *)
(* Infinity and NaN are the two values outside the grid.                   *)
(* Math.random() is the next element of a deterministic stream; which      *)
(* stream a handler invocation reads is chosen nondeterministically.       *)
(***************************************************************************)
EXTENDS Integers, Sequences, FiniteSets, TLC

\* ------------------------------------------------------------------ bounds
\* Math.random() returns k / RDen for some k in 0 .. RDen-1.
RDen == 4
\* A tick is taken only while iterationRef < MaxIter.
MaxIter == 2
\* The user changes the configuration at most this many times.
MaxConfigChanges == 1
\* GWO: the phase timer value, in units of 1/TIMER_ONE, at which a phase
\* ends (150 in the source, 150 * TIMER_ONE in these units).
PHASE_DURATION == 10
\* GWO: stats are emitted while iterationRef is a multiple of this (10 in the
\* source).
STATS_PERIOD == 2
\* Bees: the largest population of the specification that mounts
\* BeesSimulation at every population size and changes no config.
MaxBees == 12

\* The configurations the user can set.
PopSizes == {1, 5}
Speeds == {50, 100}
\* The random streams a handler invocation may read.
Seeds == {0, 1}

\* ----------------------------------------------------------------- numbers
Infinity == 10^9
NaN == -(10^9)

IsFinite(x) == x # Infinity /\ x # NaN

Abs(x) == IF x < 0 THEN -x ELSE x

\* n / d rounded to the nearest integer, ties to even (d > 0).
RoundDiv(n, d) ==
    LET a == Abs(n)
        q == a \div d
        r == a % d
        m == IF 2 * r < d THEN q
             ELSE IF 2 * r > d THEN q + 1
             ELSE IF q % 2 = 0 THEN q ELSE q + 1
    IN IF n < 0 THEN -m ELSE m

\* Newton's iteration for the integer square root, from a guess above it.
RECURSIVE SqrtFrom(_, _)
SqrtFrom(n, s) ==
    LET t == (s + n \div s) \div 2
    IN IF t >= s THEN s ELSE SqrtFrom(n, t)

\* Math.sqrt, rounded to the nearest integer (n < 2^20).
Sqrt(n) ==
    LET s == IF n = 0 THEN 0 ELSE SqrtFrom(n, 1024)
    IN IF n - s * s <= s THEN s ELSE s + 1

\* IEEE addition and multiplication of non-negative values of the grid,
\* Infinity and NaN.
FAdd(a, b) ==
    IF a = NaN \/ b = NaN THEN NaN
    ELSE IF a = Infinity \/ b = Infinity THEN Infinity
    ELSE a + b

RECURSIVE FSum(_)
FSum(s) == IF s = <<>> THEN 0 ELSE FAdd(FSum(SubSeq(s, 1, Len(s) - 1)), s[Len(s)])

\* ------------------------------------------------------------ Math.random
\* A linear congruential generator; the i-th call of a handler invocation
\* that reads stream `seed` returns Draw(seed, i) / RDen.
RECURSIVE Lcg(_, _)
Lcg(seed, i) == IF i = 0 THEN (7 * seed + 3) % 31 ELSE (11 * Lcg(seed, i - 1) + 5) % 31

\* No handler invocation calls Math.random() more than 12 times per candidate.
MaxPopSize == CHOOSE n \in PopSizes : \A m \in PopSizes : m <= n

\* The streams, evaluated once.
Stream == [seed \in Seeds |-> [i \in 0 .. (12 * MaxPopSize) |-> Lcg(seed, i) % RDen]]

Draw(seed, i) == Stream[seed][i]

\* ---------------------------------------------------------------- state
VARIABLES
    mounted,          \* which component the page shows: "ACO", "GWO", "BEES"
    config,           \* the props: [populationSize, speed, isRunning]
    changes,          \* how many times the user changed the configuration
    pending,          \* callbacks the browser holds: [kind, id, cfg]
    requestRef,       \* requestRef.current
    iterationRef,     \* iterationRef.current
    statsOut,         \* what the latest step passed to onStatsUpdate, or NoStats
    uncaught,         \* the latest step ended in an uncaught TypeError
    invoked,          \* the callback the latest step ran, or NoCallback
    roulette,         \* animate's locals at a roulette-wheel selection, or NoRoulette
    \* App, Explainer and the narration service
    apiKey,           \* process.env.API_KEY is set
    currentStats,     \* App's currentStats, the stats prop of Explainer
    explanation,      \* Explainer's explanation
    loading,          \* Explainer's loading
    requests,         \* how many times fetchExplanation has been called
    inFlight,         \* the calls (by number) whose generateContent has not settled
    shownFor,         \* the call whose text is in explanation, 0 for none
    lastPromise,      \* how the latest generateAlgoExplanation promise settled
    \* AcoSimulation
    cities,
    pheromonesRef,
    bestPathRef,
    bestDistRef,
    currentAntsPaths, \* the paths the latest tick constructed
    \* BeesSimulation
    beesRef,
    bestRef,
    evaluatedMax,     \* history: the largest fitness a tick evaluated since the init effect ran (0: none)
    \* WolfSimulation
    wolvesRef,
    preyRef,
    phaseRef,         \* the phase whose action the next transition performs
    phaseTimerRef,
    phaseCount        \* history: the calls of advancePhase since the init effect ran

drv == <<mounted, config, changes, pending, requestRef, iterationRef, statsOut, uncaught,
        invoked>>
aco == <<cities, pheromonesRef, bestPathRef, bestDistRef, currentAntsPaths>>
bees == <<beesRef, bestRef, evaluatedMax>>
gwo == <<wolvesRef, preyRef, phaseRef, phaseTimerRef, phaseCount>>
narration == <<apiKey, currentStats, explanation, loading, requests, inFlight, shownFor,
              lastPromise>>
vars == <<drv, roulette, narration, aco, bees, gwo>>
notAco == <<bees, gwo>>
notBees == <<aco, gwo>>
notGwo == <<aco, bees>>

NoStats == [iteration |-> -1, bestScore |-> -1, populationSize |-> -1]

Configs == [populationSize : PopSizes, speed : Speeds, isRunning : BOOLEAN]

\* The config App starts with (running; the source's 30 wolves at speed 30
\* are the largest population and the lower speed of the model).
InitialConfig == [populationSize |-> 5, speed |-> 50, isRunning |-> TRUE]

NoCallback == [kind |-> "none", id |-> 0, cfg |-> InitialConfig]

\* The configs a component whose population effect depends on
\* populationSize is mounted with: App's, at any population.
MountConfigs == {c \in Configs : c.speed = InitialConfig.speed /\ c.isRunning}

\* ----------------------------------------------------------- the browser
\* requestAnimationFrame and setTimeout return a handle that no pending
\* callback of the kind has (the least such: handles are opaque).
FreshHandle(held, kind) ==
    LET used == {cb.id : cb \in {c \in held : c.kind = kind}}
    IN CHOOSE h \in 1 .. (Cardinality(used) + 1) :
           h \notin used /\ \A g \in 1 .. (h - 1) : g \in used

\* requestRef.current = requestAnimationFrame(animate), animate closing over cfg
RequestFrame(held, cfg) ==
    LET h == FreshHandle(held, "raf")
    IN [pending |-> held \cup {[kind |-> "raf", id |-> h, cfg |-> cfg]},
        requestRef |-> h]

\* setTimeout(() => { requestRef.current = requestAnimationFrame(animate) }, d)
SetTimeout(held, cfg) ==
    held \cup {[kind |-> "timeout", id |-> FreshHandle(held, "timeout"), cfg |-> cfg]}

\* cancelAnimationFrame(requestRef.current)
CancelFrame(held) == {cb \in held : ~(cb.kind = "raf" /\ cb.id = requestRef)}


\* ------------------------------------------------------- AcoSimulation
\* 15 in the source; the model runs the same construction on a smaller
\* instance.
CITY_COUNT == 4
CANVAS_SIZE == 600

\* The grids of pheromone and of desirability: 1.0 is PHER_ONE, PROB_ONE.
PHER_ONE == 10^3
PROB_ONE == 10^6

CityIds == 0 .. (CITY_COUNT - 1)

\* The city positions the mount effect may draw (x, y in [20, 580)): a
\* grid of distinct cities, the same with cities 0 and 1 on one point, and
\* all cities on one point.
Layouts ==
    LET grid == [i \in CityIds |->
                    [x |-> 20 + 30 * (i % 2) + 60 * (i \div 4),
                     y |-> 20 + 40 * ((i \div 2) % 2)]]
    IN {grid,
        [grid EXCEPT ![1] = grid[0]],
        [i \in CityIds |-> grid[0]]}

distance(p1, p2) == Sqrt((p1.x - p2.x) * (p1.x - p2.x) + (p1.y - p2.y) * (p1.y - p2.y))

\* distance(cities[a], cities[b]) for every layout, evaluated once.
LayoutDistance ==
    [cts \in Layouts |->
        [a \in CityIds |-> [b \in CityIds |-> distance(cts[a], cts[b])]]]

CityDistance(cts, a, b) == LayoutDistance[cts][a][b]

\* Math.pow(pheromone, 1) * Math.pow(1 / dist, 2)
Desirability(pheromone, dist) ==
    IF pheromone = NaN THEN NaN
    ELSE IF dist = 0 THEN (IF pheromone = 0 THEN NaN ELSE Infinity)
    ELSE IF pheromone = Infinity THEN Infinity
    ELSE RoundDiv(pheromone * (PROB_ONE \div PHER_ONE), dist * dist)

\* The unvisited cities in index order (the loop over `next`).
RECURSIVE CandidatesFrom(_, _)
CandidatesFrom(next, visited) ==
    IF next >= CITY_COUNT THEN <<>>
    ELSE IF next \in visited THEN CandidatesFrom(next + 1, visited)
    ELSE <<next>> \o CandidatesFrom(next + 1, visited)

\* r = Math.random() * sumProb, kept multiplied by RDen.
RouletteStart(rnd, sumProb) ==
    IF sumProb = NaN THEN NaN
    ELSE IF sumProb = Infinity THEN (IF rnd = 0 THEN NaN ELSE Infinity)
    ELSE rnd * sumProb

\* r -= probs[i]
RouletteSub(r, p) ==
    IF r = NaN \/ p = NaN THEN NaN
    ELSE IF r = Infinity THEN (IF p = Infinity THEN NaN ELSE Infinity)
    ELSE IF p = Infinity THEN -Infinity
    ELSE r - RDen * p

\* r <= 0
LeqZero(r) == r # NaN /\ r # Infinity /\ r <= 0

\* for (i = 0; i < probs.length; i++) { r -= probs[i]; if (r <= 0) ... }
RECURSIVE RouletteScan(_, _, _, _)
RouletteScan(i, r, probs, candidates) ==
    IF i > Len(probs) THEN candidates[Len(candidates)]
    ELSE LET r2 == RouletteSub(r, probs[i])
         IN IF LeqZero(r2) THEN candidates[i]
            ELSE RouletteScan(i + 1, r2, probs, candidates)

\* Roulette wheel selection with the draw rnd / RDen.
RouletteSelect(probs, candidates, rnd) ==
    RouletteScan(1, RouletteStart(rnd, FSum(probs)), probs, candidates)

\* The city an ant standing on currentCity moves to.
NextCity(currentCity, visited, pher, cts, rnd) ==
    LET candidates == CandidatesFrom(0, visited)
        probs == [i \in 1 .. Len(candidates) |->
                     Desirability(pher[currentCity][candidates[i]],
                                  CityDistance(cts, currentCity, candidates[i]))]
    IN RouletteSelect(probs, candidates, rnd)

Range(s) == {s[i] : i \in 1 .. Len(s)}

\* ConstructPath with the loop ended one city early.
RECURSIVE ConstructPathShort(_, _, _, _, _)
ConstructPathShort(path, pher, cts, seed, base) ==
    IF Cardinality(Range(path)) >= CITY_COUNT - 1 THEN path
    ELSE LET selected == NextCity(path[Len(path)], Range(path), pher, cts,
                                  Draw(seed, base + Len(path)))
         IN ConstructPathShort(Append(path, selected), pher, cts, seed, base)

\* while (visited.size < CITY_COUNT): the path an ant completes from `path`;
\* its n-th call of Math.random() is call base + n of the invocation.
RECURSIVE ConstructPath(_, _, _, _, _)
ConstructPath(path, pher, cts, seed, base) ==
    IF Cardinality(Range(path)) >= CITY_COUNT THEN path
    ELSE LET selected == NextCity(path[Len(path)], Range(path), pher, cts,
                                  Draw(seed, base + Len(path)))
         IN ConstructPath(Append(path, selected), pher, cts, seed, base)

\* Math.floor(Math.random() * CITY_COUNT)
StartCity(rnd) == (rnd * CITY_COUNT) \div RDen

\* The path of ant k.
AntPath(k, pher, cts, seed) ==
    ConstructPath(<<StartCity(Draw(seed, k * CITY_COUNT))>>, pher, cts, seed, k * CITY_COUNT)

\* The length of the closed tour.
RECURSIVE OpenLength(_, _, _)
OpenLength(path, cts, i) ==
    IF i >= Len(path) THEN 0
    ELSE CityDistance(cts, path[i], path[i + 1]) + OpenLength(path, cts, i + 1)

TourLength(path, cts) ==
    OpenLength(path, cts, 1) + CityDistance(cts, path[Len(path)], path[1])

\* TrackBest without the copy of the path.
TrackBestDistOnly(best, d, path) ==
    IF d < best.dist THEN [dist |-> d, path |-> best.path] ELSE best

\* TrackBest with <= for <.
TrackBestTies(best, d, path) ==
    IF d <= best.dist THEN [dist |-> d, path |-> path] ELSE best

\* if (d < bestDistRef.current) { bestDistRef.current = d; bestPathRef.current = [...path] }
TrackBest(best, d, path) ==
    IF d < best.dist THEN [dist |-> d, path |-> path] ELSE best

\* for (k = 0; k < populationSize; k++): the paths, their lengths and the
\* running best after ants k .. populationSize-1, given those before.
RECURSIVE AntLoop(_, _, _, _, _, _)
AntLoop(k, populationSize, acc, pher, cts, seed) ==
    IF k >= populationSize THEN acc
    ELSE LET path == AntPath(k, pher, cts, seed)
             d == TourLength(path, cts)
         IN AntLoop(k + 1, populationSize,
                    [paths |-> Append(acc.paths, path),
                     dists |-> Append(acc.dists, d),
                     best |-> TrackBest(acc.best, d, path)],
                    pher, cts, seed)

\* pheromonesRef.current[i][j] *= (1 - rho), rho = 0.1
EvaporateEntry(m) ==
    IF m = NaN \/ m = Infinity THEN m ELSE RoundDiv(m * (10 - 1), 10)

Evaporate(pher) == [i \in CityIds |-> [j \in CityIds |-> EvaporateEntry(pher[i][j])]]

\* 100 / pathDistances[k]
Contribution(d) == IF d = 0 THEN Infinity ELSE RoundDiv(100 * PHER_ONE, d)

\* DepositEdge without the deposit on the reverse edge.
DepositEdgeOneWay(pher, u, v, c) == [pher EXCEPT ![u][v] = FAdd(@, c)]

\* pheromones[u][v] += contribution; pheromones[v][u] += contribution
DepositEdge(pher, u, v, c) ==
    LET one == [pher EXCEPT ![u][v] = FAdd(@, c)]
    IN [one EXCEPT ![v][u] = FAdd(@, c)]

\* DepositPath without the closing edge.
RECURSIVE DepositPathOpen(_, _, _, _)
DepositPathOpen(pher, path, i, c) ==
    IF i >= Len(path) THEN pher
    ELSE DepositPathOpen(DepositEdge(pher, path[i], path[i + 1], c), path, i + 1, c)

\* The edges of a path, the closing edge last.
RECURSIVE DepositPath(_, _, _, _)
DepositPath(pher, path, i, c) ==
    IF i >= Len(path) THEN DepositEdge(pher, path[Len(path)], path[1], c)
    ELSE DepositPath(DepositEdge(pher, path[i], path[i + 1], c), path, i + 1, c)

RECURSIVE DepositAll(_, _, _, _)
DepositAll(pher, paths, dists, k) ==
    IF k > Len(paths) THEN pher
    ELSE DepositAll(DepositPath(pher, paths[k], 1, Contribution(dists[k])),
                    paths, dists, k + 1)

\* 2. Update Pheromones
UpdatePheromones(pher, paths, dists) == DepositAll(Evaporate(pher), paths, dists, 1)

\* What a tick leaves in the refs, given the result of its loop over the ants.
AcoTick(ants) ==
    [paths |-> ants.paths,
     bestDist |-> ants.best.dist,
     bestPath |-> ants.best.path,
     pheromones |-> UpdatePheromones(pheromonesRef, ants.paths, ants.dists)]

\* animate of AcoSimulation, run as the callback cb, reading stream seed.
AcoAnimate(cb, seed) ==
    LET cfg == cb.cfg
        rest == pending \ {cb}
    IN IF ~cfg.isRunning
       THEN LET rf == RequestFrame(rest, cfg)
            IN /\ pending' = rf.pending
               /\ requestRef' = rf.requestRef
               /\ statsOut' = NoStats
               /\ uncaught' = FALSE
               /\ UNCHANGED <<iterationRef, aco>>
       ELSE LET t == AcoTick(AntLoop(0, cfg.populationSize,
                                     [paths |-> <<>>, dists |-> <<>>,
                                      best |-> [dist |-> bestDistRef, path |-> bestPathRef]],
                                     pheromonesRef, cities, seed))
            IN /\ iterationRef < MaxIter
               /\ iterationRef' = iterationRef + 1
               /\ currentAntsPaths' = t.paths
               /\ bestDistRef' = t.bestDist
               /\ bestPathRef' = t.bestPath
               /\ pheromonesRef' = t.pheromones
               /\ statsOut' = [iteration |-> iterationRef + 1,
                               bestScore |-> t.bestDist,
                               populationSize |-> cfg.populationSize]
               /\ pending' = SetTimeout(rest, cfg)
               /\ uncaught' = FALSE
               /\ UNCHANGED <<requestRef, cities>>

\* The mount effects of AcoSimulation and the render that follows setCities.
AcoMount ==
    /\ cities \in Layouts
    /\ pheromonesRef = [i \in CityIds |-> [j \in CityIds |-> PHER_ONE]]
    /\ bestDistRef = Infinity
    /\ bestPathRef = <<>>
    /\ currentAntsPaths = <<>>

\* AcoSimulation renders with a changed config: the driver effect's cleanup,
\* then the effect ([isRunning, speed, cities, populationSize]).
AcoRender(newConfig) ==
    LET rf == RequestFrame(CancelFrame(pending), newConfig)
    IN /\ pending' = rf.pending
       /\ requestRef' = rf.requestRef
       /\ UNCHANGED <<iterationRef, aco>>

\* --------------------------------------------------------- BeesSimulation
SCORE_ONE == 10^3
EXP_ONE == 10^4
\* ln 2 in units of 1/EXP_ONE
LN2 == 6931

RECURSIVE Pow2(_)
Pow2(n) == IF n = 0 THEN 1 ELSE 2 * Pow2(n - 1)

\* Math.exp(-f / EXP_ONE) for 0 <= f < LN2, in units of 1/EXP_ONE: the
\* Taylor polynomial of degree 6 in Horner form.
ExpNegFrac(f) ==
    LET h6 == EXP_ONE - RoundDiv(f * EXP_ONE, 6 * EXP_ONE)
        h5 == EXP_ONE - RoundDiv(f * h6, 5 * EXP_ONE)
        h4 == EXP_ONE - RoundDiv(f * h5, 4 * EXP_ONE)
        h3 == EXP_ONE - RoundDiv(f * h4, 3 * EXP_ONE)
        h2 == EXP_ONE - RoundDiv(f * h3, 2 * EXP_ONE)
    IN EXP_ONE - RoundDiv(f * h2, EXP_ONE)

\* amp * Math.exp(-d / scale), in units of 1/SCORE_ONE
Peak(amp, d, scale) ==
    LET x == RoundDiv(d * EXP_ONE, scale)
        n == x \div LN2
    IN IF n > 20 THEN 0
       ELSE RoundDiv(amp * (SCORE_ONE \div 10) * ExpNegFrac(x % LN2),
                     Pow2(n) * (EXP_ONE \div 10))

getFitness(x, y) ==
    LET cx == CANVAS_SIZE \div 2
        cy == CANVAS_SIZE \div 2
        d1 == Sqrt((x - cx) * (x - cx) + (y - cy) * (y - cy))
        d2 == Sqrt((x - cx + 150) * (x - cx + 150) + (y - cy - 100) * (y - cy - 100))
        d3 == Sqrt((x - cx - 150) * (x - cx - 150) + (y - cy + 150) * (y - cy + 150))
    IN Peak(100, d1, 100) + Peak(80, d2, 80) + Peak(60, d3, 60)

\* Clamp without the upper bound.
ClampLowOnly(lo, hi, v) == IF v < lo THEN lo ELSE v

Clamp(lo, hi, v) == IF v < lo THEN lo ELSE IF v > hi THEN hi ELSE v

\* { x: Math.random() * CANVAS_SIZE, y: Math.random() * CANVAS_SIZE }, the
\* calls being the i-th and the next of the stream
RandomBee(seed, i) ==
    [x |-> RoundDiv(Draw(seed, i) * CANVAS_SIZE, RDen),
     y |-> RoundDiv(Draw(seed, i + 1) * CANVAS_SIZE, RDen)]

\* the neighbour of site b: b + (Math.random() - 0.5) * width on each axis,
\* clamped to the canvas
Neighbor(b, width, seed, i) ==
    [x |-> Clamp(0, CANVAS_SIZE, b.x + RoundDiv((2 * Draw(seed, i) - RDen) * width, 2 * RDen)),
     y |-> Clamp(0, CANVAS_SIZE, b.y + RoundDiv((2 * Draw(seed, i + 1) - RDen) * width, 2 * RDen))]

\* The init effect of BeesSimulation ([config.populationSize]).
InitBeesRef(populationSize, seed) ==
    [k \in 1 .. populationSize |-> RandomBee(seed, 2 * (k - 1))]

\* beesRef.current.map(b => ({ ...b, score: getFitness(b.x, b.y) }))
ScoreBees(bs) == [k \in 1 .. Len(bs) |-> [x |-> bs[k].x, y |-> bs[k].y,
                                          score |-> getFitness(bs[k].x, bs[k].y)]]

\* scoredBees.sort((a, b) => b.score - a.score): descending, stable
SortBees(sb) ==
    LET place(i) == Cardinality({j \in 1 .. Len(sb) :
                        \/ sb[j].score > sb[i].score
                        \/ sb[j].score = sb[i].score /\ j <= i})
    IN [p \in 1 .. Len(sb) |-> sb[CHOOSE i \in 1 .. Len(sb) : place(i) = p]]

\* eliteCount as the top 60%.
EliteCountHigh(populationSize) == (populationSize * 6) \div 10

EliteCount(populationSize) == (populationSize * 2) \div 10
BestCount(populationSize) == (populationSize * 5) \div 10

\* The elite loop: each elite site and then its recruited neighbour.
EliteSites(scored, populationSize, seed) ==
    [j \in 1 .. (2 * EliteCount(populationSize)) |->
        LET i == (j + 1) \div 2
        IN IF j % 2 = 1 THEN [x |-> scored[i].x, y |-> scored[i].y]
           ELSE Neighbor(scored[i], 20, seed, 2 * (i - 1))]

\* The loop over the other best sites: site i (counted from 0) is searched
\* while newBees.length < populationSize; drawsBefore calls precede the loop.
RECURSIVE OtherSites(_, _, _, _, _, _)
OtherSites(i, newBees, drawn, scored, populationSize, seed) ==
    IF i >= BestCount(populationSize) THEN [newBees |-> newBees, drawn |-> drawn]
    ELSE IF Len(newBees) < populationSize
         THEN OtherSites(i + 1, Append(newBees, Neighbor(scored[i + 1], 50, seed, drawn)),
                         drawn + 2, scored, populationSize, seed)
         ELSE OtherSites(i + 1, newBees, drawn, scored, populationSize, seed)

\* The scouts: random bees while newBees.length < populationSize.
Scouts(newBees, drawn, populationSize, seed) ==
    newBees \o [m \in 1 .. (IF Len(newBees) < populationSize
                            THEN populationSize - Len(newBees) ELSE 0) |->
                   RandomBee(seed, drawn + 2 * (m - 1))]

\* newBees.slice(0, populationSize)
Slice(s, n) == SubSeq(s, 1, IF Len(s) < n THEN Len(s) ELSE n)

\* The selection of a tick, from the sorted scored bees to the new population.
ScoutsAfter(other, populationSize, seed) ==
    Scouts(other.newBees, other.drawn, populationSize, seed)

NewBees(scored, populationSize, seed) ==
    ScoutsAfter(OtherSites(EliteCount(populationSize),
                           EliteSites(scored, populationSize, seed),
                           2 * EliteCount(populationSize), scored, populationSize, seed),
                populationSize, seed)

\* scoredBees[i] is undefined for some i the tick reads: the read of its
\* score, x or y throws a TypeError.
BeesThrows(scored, populationSize) ==
    \/ Len(scored) = 0
    \/ BestCount(populationSize) > Len(scored)

\* UpdateBest assigning the score of the tick's best bee unconditionally.
UpdateBestLatest(scored, best) == scored[1].score

\* if (scoredBees[0].score > bestRef.current) bestRef.current = scoredBees[0].score
UpdateBest(scored, best) ==
    IF scored[1].score > best THEN scored[1].score ELSE best

\* The largest of m and the scores of scored.
MaxScore(scored, m) ==
    LET all == {scored[k].score : k \in 1 .. Len(scored)} \cup {m}
    IN CHOOSE v \in all : \A w \in all : w <= v

\* The part of animate after the pause guard, scored being the sorted
\* scoredBees.
BeesTick(scored, cfg, rest, seed) ==
    /\ iterationRef < MaxIter
    /\ iterationRef' = iterationRef + 1
    /\ evaluatedMax' = MaxScore(scored, evaluatedMax)
    /\ IF BeesThrows(scored, cfg.populationSize)
       THEN /\ bestRef' = IF Len(scored) = 0 THEN bestRef
                          ELSE UpdateBest(scored, bestRef)
            /\ pending' = rest
            /\ statsOut' = NoStats
            /\ uncaught' = TRUE
            /\ UNCHANGED <<requestRef, beesRef>>
       ELSE /\ bestRef' = UpdateBest(scored, bestRef)
            /\ beesRef' = Slice(NewBees(scored, cfg.populationSize, seed),
                                cfg.populationSize)
            /\ statsOut' = [iteration |-> iterationRef + 1,
                            bestScore |-> UpdateBest(scored, bestRef),
                            populationSize |-> cfg.populationSize]
            /\ pending' = SetTimeout(rest, cfg)
            /\ uncaught' = FALSE
            /\ UNCHANGED requestRef

\* BeesSimulation's animate, in the closure of the render with config cb.cfg.
BeesAnimate(cb, seed) ==
    IF ~cb.cfg.isRunning
    THEN LET rf == RequestFrame(pending \ {cb}, cb.cfg)
         IN /\ pending' = rf.pending
            /\ requestRef' = rf.requestRef
            /\ statsOut' = NoStats
            /\ uncaught' = FALSE
            /\ UNCHANGED <<iterationRef, bees>>
    ELSE BeesTick(SortBees(ScoreBees(beesRef)), cb.cfg, pending \ {cb}, seed)

\* The state of BeesSimulation's refs after the mount effects.
BeesMount ==
    /\ \E seed \in Seeds : beesRef = InitBeesRef(config.populationSize, seed)
    /\ bestRef = 0
    /\ evaluatedMax = 0

\* BeesSimulation renders with a changed config: the init effect when
\* populationSize changed, the driver effect's cleanup and the effect when
\* isRunning or speed changed.
BeesRender(newConfig) ==
    IF newConfig.populationSize # config.populationSize
    THEN /\ \E seed \in Seeds : beesRef' = InitBeesRef(newConfig.populationSize, seed)
         /\ iterationRef' = 0
         /\ bestRef' = 0
         /\ evaluatedMax' = 0
         /\ UNCHANGED <<pending, requestRef>>
    ELSE LET rf == RequestFrame(CancelFrame(pending), newConfig)
         IN /\ pending' = rf.pending
            /\ requestRef' = rf.requestRef
            /\ UNCHANGED <<iterationRef, bees>>

\* --------------------------------------------------------- WolfSimulation
TIMER_ONE == 10
A_ONE == 10^3

Phases == {"MOVE_PREY", "EVALUATE", "RANK", "CALCULATE", "MOVE_WOLVES"}

\* Where Date.now() puts the prey: CANVAS_SIZE/2 + cos(time) * 150 and
\* CANVAS_SIZE/2 + sin(2 * time) * 80 at time = 0 and time = pi / 4.
PreyPositions == {[x |-> 450, y |-> 300], [x |-> 406, y |-> 380]}

\* distance(x1, y1, x2, y2) of WolfSimulation
distanceXY(x1, y1, x2, y2) == Sqrt((x2 - x1) * (x2 - x1) + (y2 - y1) * (y2 - y1))

\* speedMultiplier without the constant 0.2.
SpeedMultiplierNoFloor(speed) == RoundDiv(speed * 8 * TIMER_ONE, 1000)

\* speedMultiplier = 0.2 + (config.speed / 100) * 0.8, in units of 1/TIMER_ONE
SpeedMultiplier(speed) == RoundDiv(2 * TIMER_ONE, 10) + RoundDiv(speed * 8 * TIMER_ONE, 1000)

\* lerp(start, end, 0.05 * speedMultiplier)
lerp(start, end, sm) ==
    RoundDiv(start * (100 * TIMER_ONE - 5 * sm) + end * 5 * sm, 100 * TIMER_ONE)

\* InitWolves without the pass that sets each target to the position.
InitWolvesRandomTargets(populationSize, seed) ==
    [k \in 1 .. populationSize |->
        [x |-> RoundDiv(Draw(seed, 4 * (k - 1)) * CANVAS_SIZE, RDen),
         y |-> RoundDiv(Draw(seed, 4 * (k - 1) + 1) * CANVAS_SIZE, RDen),
         targetX |-> RoundDiv(Draw(seed, 4 * (k - 1) + 2) * CANVAS_SIZE, RDen),
         targetY |-> RoundDiv(Draw(seed, 4 * (k - 1) + 3) * CANVAS_SIZE, RDen),
         type |-> "omega", score |-> Infinity]]

\* The init effect of WolfSimulation ([config.populationSize]): four calls of
\* Math.random() per wolf, the targets then set to the position.
InitWolves(populationSize, seed) ==
    [k \in 1 .. populationSize |->
        LET x == RoundDiv(Draw(seed, 4 * (k - 1)) * CANVAS_SIZE, RDen)
            y == RoundDiv(Draw(seed, 4 * (k - 1) + 1) * CANVAS_SIZE, RDen)
        IN [x |-> x, y |-> y, targetX |-> x, targetY |-> y,
            type |-> "omega", score |-> Infinity]]

\* Evaluate measuring from each wolf's target.
EvaluateAtTarget(wolves, prey) ==
    [k \in 1 .. Len(wolves) |->
        [wolves[k] EXCEPT !.score = distanceXY(wolves[k].targetX, wolves[k].targetY,
                                               prey.x, prey.y)]]

\* case Phase.EVALUATE
Evaluate(wolves, prey) ==
    [k \in 1 .. Len(wolves) |->
        [wolves[k] EXCEPT !.score = distanceXY(wolves[k].x, wolves[k].y, prey.x, prey.y)]]

\* Place with the comparator reversed: descending.
PlaceDescending(wolves, i) ==
    Cardinality({j \in 1 .. Len(wolves) :
                    \/ wolves[j].score > wolves[i].score
                    \/ wolves[j].score = wolves[i].score /\ j <= i})

\* The place of wolf i in [...wolves].sort((a, b) => a.score - b.score):
\* ascending, stable.
Place(wolves, i) ==
    Cardinality({j \in 1 .. Len(wolves) :
                    \/ wolves[j].score < wolves[i].score
                    \/ wolves[j].score = wolves[i].score /\ j <= i})

\* Rank without the reset to omega: a wolf outside the first three keeps
\* the type it had.
RankNoReset(wolves) ==
    [k \in 1 .. Len(wolves) |->
        [wolves[k] EXCEPT !.type = CASE Place(wolves, k) = 1 -> "alpha"
                                     [] Place(wolves, k) = 2 -> "beta"
                                     [] Place(wolves, k) = 3 -> "delta"
                                     [] OTHER -> wolves[k].type]]

\* case Phase.RANK: all reset to omega, then the first three of sorted.
Rank(wolves) ==
    [k \in 1 .. Len(wolves) |->
        [wolves[k] EXCEPT !.type = CASE Place(wolves, k) = 1 -> "alpha"
                                     [] Place(wolves, k) = 2 -> "beta"
                                     [] Place(wolves, k) = 3 -> "delta"
                                     [] OTHER -> "omega"]]

\* wolves.find(w => w.type === type): its index, 0 when there is none
Find(wolves, type) ==
    IF \E k \in 1 .. Len(wolves) : wolves[k].type = type
    THEN CHOOSE k \in 1 .. Len(wolves) :
            /\ wolves[k].type = type
            /\ \A j \in 1 .. (k - 1) : wolves[j].type # type
    ELSE 0

\* X = leaderPos - (2 * A * rA - A) * Math.abs(2 * rC * leaderPos - current),
\* in units of 1 / (A_ONE * RDen * RDen); a is A in units of 1/A_ONE and rA,
\* rC are draws in units of 1/RDen.
LeaderPull(a, rA, rC, leaderPos, current) ==
    leaderPos * A_ONE * RDen * RDen
        - a * (2 * rA - RDen) * Abs(2 * rC * leaderPos - RDen * current)

\* computeDim: the six calls of Math.random() are the o-th to the (o+5)-th of
\* the stream; A3 is formed from r3 and r5 is not used.
computeDim(current, alphaPos, betaPos, deltaPos, iteration, seed, o) ==
    LET A == 2 * A_ONE - RoundDiv(2 * iteration * A_ONE, 1000)
        r1 == Draw(seed, o)
        r2 == Draw(seed, o + 1)
        r3 == Draw(seed, o + 2)
        r4 == Draw(seed, o + 3)
        r6 == Draw(seed, o + 5)
        X1 == LeaderPull(A, r1, r2, alphaPos, current)
        X2 == LeaderPull(A, r3, r4, betaPos, current)
        X3 == LeaderPull(A, r3, r6, deltaPos, current)
    IN RoundDiv(X1 + X2 + X3, 3 * A_ONE * RDen * RDen)

\* case Phase.CALCULATE
Calculate(wolves, iteration, seed) ==
    LET alpha == Find(wolves, "alpha")
        beta == Find(wolves, "beta")
        delta == Find(wolves, "delta")
    IN IF alpha # 0 /\ beta # 0 /\ delta # 0
       THEN [k \in 1 .. Len(wolves) |->
               [wolves[k] EXCEPT
                   !.targetX = Clamp(10, CANVAS_SIZE - 10,
                                   computeDim(wolves[k].x, wolves[alpha].x, wolves[beta].x,
                                              wolves[delta].x, iteration, seed, 12 * (k - 1))),
                   !.targetY = Clamp(10, CANVAS_SIZE - 10,
                                   computeDim(wolves[k].y, wolves[alpha].y, wolves[beta].y,
                                              wolves[delta].y, iteration, seed, 12 * (k - 1) + 6))]]
       ELSE wolves

\* advancePhase with MOVE_WOLVES looping back to EVALUATE.
advancePhaseSkipsPrey(r, seed, preyAt) ==
    CASE r.phase = "MOVE_PREY" -> [r EXCEPT !.prey = preyAt, !.phase = "EVALUATE"]
      [] r.phase = "EVALUATE" -> [r EXCEPT !.wolves = Evaluate(r.wolves, r.prey), !.phase = "RANK"]
      [] r.phase = "RANK" -> [r EXCEPT !.wolves = Rank(r.wolves), !.phase = "CALCULATE"]
      [] r.phase = "CALCULATE" -> [r EXCEPT !.wolves = Calculate(r.wolves, r.iteration, seed),
                                           !.phase = "MOVE_WOLVES"]
      [] r.phase = "MOVE_WOLVES" -> [r EXCEPT !.iteration = r.iteration + 1, !.phase = "EVALUATE"]

\* advancePhase with iterationRef.current++ in case MOVE_PREY as well.
advancePhaseCountsPrey(r, seed, preyAt) ==
    CASE r.phase = "MOVE_PREY" -> [r EXCEPT !.prey = preyAt, !.phase = "EVALUATE",
                                           !.iteration = r.iteration + 1]
      [] r.phase = "EVALUATE" -> [r EXCEPT !.wolves = Evaluate(r.wolves, r.prey), !.phase = "RANK"]
      [] r.phase = "RANK" -> [r EXCEPT !.wolves = Rank(r.wolves), !.phase = "CALCULATE"]
      [] r.phase = "CALCULATE" -> [r EXCEPT !.wolves = Calculate(r.wolves, r.iteration, seed),
                                           !.phase = "MOVE_WOLVES"]
      [] r.phase = "MOVE_WOLVES" -> [r EXCEPT !.iteration = r.iteration + 1, !.phase = "MOVE_PREY"]

\* advancePhase, on the refs as a record [wolves, prey, phase, iteration]
advancePhase(r, seed, preyAt) ==
    CASE r.phase = "MOVE_PREY" -> [r EXCEPT !.prey = preyAt, !.phase = "EVALUATE"]
      [] r.phase = "EVALUATE" -> [r EXCEPT !.wolves = Evaluate(r.wolves, r.prey), !.phase = "RANK"]
      [] r.phase = "RANK" -> [r EXCEPT !.wolves = Rank(r.wolves), !.phase = "CALCULATE"]
      [] r.phase = "CALCULATE" -> [r EXCEPT !.wolves = Calculate(r.wolves, r.iteration, seed),
                                           !.phase = "MOVE_WOLVES"]
      [] r.phase = "MOVE_WOLVES" -> [r EXCEPT !.iteration = r.iteration + 1, !.phase = "MOVE_PREY"]

\* The interpolation applied in every phase.
MoveWolvesAlways(wolves, phase, sm) ==
    [k \in 1 .. Len(wolves) |->
        [wolves[k] EXCEPT !.x = lerp(wolves[k].x, wolves[k].targetX, sm),
                          !.y = lerp(wolves[k].y, wolves[k].targetY, sm)]]

\* The interpolation of animate.
MoveWolves(wolves, phase, sm) ==
    IF phase = "MOVE_WOLVES" \/ phase = "MOVE_PREY"
    THEN [k \in 1 .. Len(wolves) |->
            [wolves[k] EXCEPT !.x = lerp(wolves[k].x, wolves[k].targetX, sm),
                              !.y = lerp(wolves[k].y, wolves[k].targetY, sm)]]
    ELSE wolves

\* alpha ? alpha.score : 0
AlphaScore(wolves) ==
    IF Find(wolves, "alpha") # 0 THEN wolves[Find(wolves, "alpha")].score ELSE 0

\* GwoTick with the phase timer left running over a transition.
GwoTickNoReset(r, advanced, cfg, rest) ==
    LET rf == RequestFrame(rest, cfg)
    IN /\ iterationRef < MaxIter
       /\ phaseTimerRef' = phaseTimerRef + SpeedMultiplier(cfg.speed)
       /\ phaseCount' = IF advanced THEN phaseCount + 1 ELSE phaseCount
       /\ wolvesRef' = MoveWolves(r.wolves, r.phase, SpeedMultiplier(cfg.speed))
       /\ preyRef' = r.prey
       /\ phaseRef' = r.phase
       /\ iterationRef' = r.iteration
       /\ statsOut' = IF r.iteration % STATS_PERIOD = 0
                      THEN [iteration |-> r.iteration,
                            bestScore |-> AlphaScore(r.wolves),
                            populationSize |-> cfg.populationSize]
                      ELSE NoStats
       /\ pending' = rf.pending
       /\ requestRef' = rf.requestRef
       /\ uncaught' = FALSE

\* The part of animate after the pause guard: r is the refs after the phase
\* logic (the timer, and advancePhase when the timer reached PHASE_DURATION).
GwoTick(r, advanced, cfg, rest) ==
    LET rf == RequestFrame(rest, cfg)
    IN /\ iterationRef < MaxIter
       /\ phaseTimerRef' = IF advanced THEN 0 ELSE phaseTimerRef + SpeedMultiplier(cfg.speed)
       /\ phaseCount' = IF advanced THEN phaseCount + 1 ELSE phaseCount
       /\ wolvesRef' = MoveWolves(r.wolves, r.phase, SpeedMultiplier(cfg.speed))
       /\ preyRef' = r.prey
       /\ phaseRef' = r.phase
       /\ iterationRef' = r.iteration
       /\ statsOut' = IF r.iteration % STATS_PERIOD = 0
                      THEN [iteration |-> r.iteration,
                            bestScore |-> AlphaScore(r.wolves),
                            populationSize |-> cfg.populationSize]
                      ELSE NoStats
       /\ pending' = rf.pending
       /\ requestRef' = rf.requestRef
       /\ uncaught' = FALSE

GwoRefs == [wolves |-> wolvesRef, prey |-> preyRef, phase |-> phaseRef,
            iteration |-> iterationRef]

\* animate with the phase timer advanced before the pause guard.
GwoAnimateTimerFirst(cb, seed, preyAt) ==
    IF ~cb.cfg.isRunning
    THEN LET rf == RequestFrame(pending \ {cb}, cb.cfg)
         IN /\ pending' = rf.pending
            /\ requestRef' = rf.requestRef
            /\ statsOut' = NoStats
            /\ uncaught' = FALSE
            /\ phaseTimerRef' = (phaseTimerRef + SpeedMultiplier(cb.cfg.speed)) % PHASE_DURATION
            /\ UNCHANGED <<iterationRef, wolvesRef, preyRef, phaseRef, phaseCount>>
    ELSE IF phaseTimerRef + SpeedMultiplier(cb.cfg.speed) >= PHASE_DURATION
         THEN GwoTick(advancePhase(GwoRefs, seed, preyAt), TRUE, cb.cfg, pending \ {cb})
         ELSE GwoTick(GwoRefs, FALSE, cb.cfg, pending \ {cb})

\* WolfSimulation's animate, in the closure of the render with config cb.cfg.
GwoAnimate(cb, seed, preyAt) ==
    IF ~cb.cfg.isRunning
    THEN LET rf == RequestFrame(pending \ {cb}, cb.cfg)
         IN /\ pending' = rf.pending
            /\ requestRef' = rf.requestRef
            /\ statsOut' = NoStats
            /\ uncaught' = FALSE
            /\ UNCHANGED <<iterationRef, gwo>>
    ELSE IF phaseTimerRef + SpeedMultiplier(cb.cfg.speed) >= PHASE_DURATION
         THEN GwoTick(advancePhase(GwoRefs, seed, preyAt), TRUE, cb.cfg, pending \ {cb})
         ELSE GwoTick(GwoRefs, FALSE, cb.cfg, pending \ {cb})

\* The state of WolfSimulation's refs after the mount effects.
GwoMount ==
    /\ \E seed \in Seeds : wolvesRef = InitWolves(config.populationSize, seed)
    /\ preyRef = [x |-> CANVAS_SIZE \div 2, y |-> CANVAS_SIZE \div 2]
    /\ phaseRef = "EVALUATE"
    /\ phaseTimerRef = 0
    /\ phaseCount = 0

\* WolfSimulation renders with a changed config: the init effect when
\* populationSize changed, the driver effect's cleanup and the effect when
\* isRunning or speed changed.
GwoRender(newConfig) ==
    IF newConfig.populationSize # config.populationSize
    THEN /\ \E seed \in Seeds : wolvesRef' = InitWolves(newConfig.populationSize, seed)
         /\ iterationRef' = 0
         /\ phaseRef' = "EVALUATE"
         /\ phaseTimerRef' = 0
         /\ phaseCount' = 0
         /\ UNCHANGED <<preyRef, pending, requestRef>>
    ELSE LET rf == RequestFrame(CancelFrame(pending), newConfig)
         IN /\ pending' = rf.pending
            /\ requestRef' = rf.requestRef
            /\ UNCHANGED <<iterationRef, gwo>>

\* ------------------------------------------------------------ the driver
\* The browser runs a pending animation-frame callback of AcoSimulation.
AcoFrame ==
    \E cb \in pending : \E seed \in Seeds :
        /\ mounted = "ACO"
        /\ cb.kind = "raf"
        /\ invoked' = cb
        /\ AcoAnimate(cb, seed)
        /\ UNCHANGED <<mounted, config, changes, roulette, narration, notAco>>

\* The browser runs a pending animation-frame callback of BeesSimulation.
BeesFrame ==
    \E cb \in pending : \E seed \in Seeds :
        /\ mounted = "BEES"
        /\ cb.kind = "raf"
        /\ invoked' = cb
        /\ BeesAnimate(cb, seed)
        /\ UNCHANGED <<mounted, config, changes, roulette, narration, notBees>>

\* The browser runs the pending animation-frame callback of WolfSimulation.
GwoFrame ==
    \E cb \in pending : \E seed \in Seeds : \E preyAt \in PreyPositions :
        /\ mounted = "GWO"
        /\ cb.kind = "raf"
        /\ invoked' = cb
        /\ GwoAnimate(cb, seed, preyAt)
        /\ UNCHANGED <<mounted, config, changes, roulette, narration, notGwo>>

\* The browser runs a pending timeout: requestRef.current = requestAnimationFrame(animate)
Timeout ==
    \E cb \in pending :
        /\ cb.kind = "timeout"
        /\ invoked' = cb
        /\ LET rf == RequestFrame(pending \ {cb}, cb.cfg)
           IN /\ pending' = rf.pending
              /\ requestRef' = rf.requestRef
        /\ statsOut' = NoStats
        /\ uncaught' = FALSE
        /\ UNCHANGED <<mounted, config, changes, roulette, narration, iterationRef, aco, bees, gwo>>

\* handleConfigChange(key, value) with a value that differs from the current
\* one: setConfig(prev => ({ ...prev, [key]: value })).
handleConfigChange(newConfig) ==
    /\ changes < MaxConfigChanges
    /\ Cardinality({k \in {"populationSize", "speed", "isRunning"} :
                        newConfig[k] # config[k]}) = 1
    /\ config' = newConfig
    /\ changes' = changes + 1
    /\ statsOut' = NoStats
    /\ uncaught' = FALSE
    /\ invoked' = NoCallback
    /\ UNCHANGED <<mounted, roulette, narration>>

AcoSetConfig ==
    \E newConfig \in Configs :
        /\ mounted = "ACO"
        /\ handleConfigChange(newConfig)
        /\ AcoRender(newConfig)
        /\ UNCHANGED notAco

BeesSetConfig ==
    \E newConfig \in Configs :
        /\ mounted = "BEES"
        /\ handleConfigChange(newConfig)
        /\ BeesRender(newConfig)
        /\ UNCHANGED notBees

GwoSetConfig ==
    \E newConfig \in Configs :
        /\ mounted = "GWO"
        /\ handleConfigChange(newConfig)
        /\ GwoRender(newConfig)
        /\ UNCHANGED notGwo

\* The refs of a component that is not mounted.
AcoUnmounted ==
    /\ cities = <<>>
    /\ pheromonesRef = <<>>
    /\ bestPathRef = <<>>
    /\ bestDistRef = 0
    /\ currentAntsPaths = <<>>

BeesUnmounted ==
    /\ beesRef = <<>>
    /\ bestRef = 0
    /\ evaluatedMax = 0

GwoUnmounted ==
    /\ wolvesRef = <<>>
    /\ preyRef = [x |-> 0, y |-> 0]
    /\ phaseRef = "EVALUATE"
    /\ phaseTimerRef = 0
    /\ phaseCount = 0

\* The first render and its effects: the driver effect has requested the
\* first frame.
Mount(component, configs) ==
    /\ mounted = component
    /\ config \in configs
    /\ changes = 0
    /\ requestRef = 1
    /\ pending = {[kind |-> "raf", id |-> 1, cfg |-> config]}
    /\ iterationRef = 0
    /\ statsOut = NoStats
    /\ uncaught = FALSE
    /\ invoked = NoCallback

\* ------------------------------------------------------------ narration
\* The period of Explainer's requests in iterations (100 in the source).
NARRATE_PERIOD == 2

NoKeyMessage == "API Key not found. Please configure the environment."

Analyzing == "Analyzing simulation data..."

Unavailable == "AI explanation temporarily unavailable."

\* What generateContent may do: answer with a text, answer without one, fail.
ServiceOutcomes == {"insight", "empty", "error"}

NoPromise == [outcome |-> "none", settled |-> "pending", text |-> ""]

\* getClient(): null without process.env.API_KEY.
getClient(key) == key

\* generateAlgoExplanation without the try/catch around the service call.
generateAlgoExplanationNoCatch(key, outcome) ==
    IF ~getClient(key)
    THEN [outcome |-> "nokey", settled |-> "resolved", text |-> NoKeyMessage]
    ELSE IF outcome = "error"
    THEN [outcome |-> outcome, settled |-> "rejected", text |-> ""]
    ELSE [outcome |-> outcome, settled |-> "resolved",
          text |-> IF outcome = "empty" THEN Analyzing ELSE outcome]

\* How the promise of generateAlgoExplanation settles when the service call,
\* if one is made, ends in `outcome`.
generateAlgoExplanation(key, outcome) ==
    IF ~getClient(key)
    THEN [outcome |-> "nokey", settled |-> "resolved", text |-> NoKeyMessage]
    ELSE IF outcome = "error"
    THEN [outcome |-> outcome, settled |-> "resolved", text |-> Unavailable]
    ELSE [outcome |-> outcome, settled |-> "resolved",
          text |-> IF outcome = "empty" THEN Analyzing ELSE outcome]

\* fetchExplanation after `await`: the promise p of call `request` has settled.
Awaited(p, request) ==
    /\ lastPromise' = p
    /\ IF p.settled = "resolved"
       THEN explanation' = p.text /\ shownFor' = request /\ loading' = FALSE
       ELSE UNCHANGED <<explanation, shownFor, loading>>

\* fetchExplanation up to its `await`: without a client the promise is
\* already resolved, otherwise generateContent has been called.
fetchExplanation ==
    IF getClient(apiKey)
    THEN /\ loading' = TRUE
         /\ requests' = requests + 1
         /\ inFlight' = inFlight \cup {requests + 1}
         /\ UNCHANGED <<explanation, shownFor, lastPromise>>
    ELSE /\ requests' = requests + 1
         /\ Awaited(generateAlgoExplanation(apiKey, "none"), requests + 1)
         /\ UNCHANGED inFlight

\* Explainer's effect condition.
Narrates(iteration) == iteration = 0 \/ iteration % NARRATE_PERIOD = 0

\* App re-renders with the stats the latest tick passed to setCurrentStats;
\* Explainer's effect runs when stats.iteration changed.
AppRender ==
    /\ mounted = "GWO"
    /\ statsOut # NoStats
    /\ statsOut # currentStats
    /\ currentStats' = statsOut
    /\ IF statsOut.iteration # currentStats.iteration /\ Narrates(statsOut.iteration)
       THEN fetchExplanation
       ELSE UNCHANGED <<explanation, loading, requests, inFlight, shownFor, lastPromise>>
    /\ UNCHANGED <<apiKey, drv, roulette, aco, bees, gwo>>

\* The service settles a call of generateContent.
ServiceSettles ==
    \E request \in inFlight : \E outcome \in ServiceOutcomes :
        /\ inFlight' = inFlight \ {request}
        /\ Awaited(generateAlgoExplanation(apiKey, outcome), request)
        /\ UNCHANGED <<apiKey, currentStats, requests, drv, roulette, aco, bees, gwo>>

\* No Explainer is rendered.
ExplainerUnmounted ==
    /\ apiKey = FALSE
    /\ currentStats = NoStats
    /\ explanation = ""
    /\ loading = FALSE
    /\ requests = 0
    /\ inFlight = {}
    /\ shownFor = 0
    /\ lastPromise = NoPromise

\* Explainer after App's first render: stats.iteration is 0, so the effect
\* has called fetchExplanation.
ExplainerMount ==
    /\ apiKey \in BOOLEAN
    /\ currentStats = [iteration |-> 0, bestScore |-> 0,
                       populationSize |-> InitialConfig.populationSize]
    /\ requests = 1
    /\ inFlight = IF getClient(apiKey) THEN {1} ELSE {}
    /\ shownFor = IF getClient(apiKey) THEN 0 ELSE 1
    /\ loading = getClient(apiKey)
    /\ explanation = IF getClient(apiKey) THEN ""
                     ELSE generateAlgoExplanation(apiKey, "none").text
    /\ lastPromise = IF getClient(apiKey) THEN NoPromise
                     ELSE generateAlgoExplanation(apiKey, "none")

\* No roulette-wheel selection is in progress between two callbacks.
NoRoulette == [probs |-> <<>>, candidates |-> <<>>, rnd |-> 0, selected |-> -1, pc |-> "idle"]

InitAco ==
    /\ Mount("ACO", {InitialConfig}) /\ AcoMount /\ BeesUnmounted /\ GwoUnmounted
    /\ roulette = NoRoulette
    /\ ExplainerUnmounted

InitBees ==
    /\ Mount("BEES", MountConfigs) /\ BeesMount /\ AcoUnmounted /\ GwoUnmounted
    /\ roulette = NoRoulette
    /\ ExplainerUnmounted

InitGwo ==
    /\ Mount("GWO", MountConfigs) /\ GwoMount /\ AcoUnmounted /\ BeesUnmounted
    /\ roulette = NoRoulette
    /\ ExplainerUnmounted

\* BeesSimulation mounted at any population size up to MaxBees.
BeesSizeConfigs == [populationSize : 1 .. MaxBees, speed : {InitialConfig.speed},
                    isRunning : {TRUE}]

InitBeesSizes ==
    /\ Mount("BEES", BeesSizeConfigs) /\ BeesMount /\ AcoUnmounted /\ GwoUnmounted
    /\ roulette = NoRoulette
    /\ ExplainerUnmounted

NextAco == AcoFrame \/ Timeout \/ AcoSetConfig

NextBees == BeesFrame \/ Timeout \/ BeesSetConfig

NextGwo == GwoFrame \/ GwoSetConfig

SpecAco == InitAco /\ [][NextAco]_vars

SpecBees == InitBees /\ [][NextBees]_vars

SpecGwo == InitGwo /\ [][NextGwo]_vars

\* BeesSimulation left running at each population size.
NextBeesSizes == BeesFrame \/ Timeout

SpecBeesSizes == InitBeesSizes /\ [][NextBeesSizes]_vars

\* The desirabilities a selection may see: 0 (the product underflowed),
\* positive values, and Infinity (the candidate is on the current city).
ProbValues == {0, 1, 3, Infinity}

\* animate at the roulette wheel: the candidate list of some set of visited
\* cities, a desirability for each, the draw, and selected preset to the last
\* candidate.
RouletteInputs ==
    UNION {{[probs |-> ps, candidates |-> CandidatesFrom(0, visited), rnd |-> rnd,
             selected |-> CandidatesFrom(0, visited)[CITY_COUNT - Cardinality(visited)],
             pc |-> "scan"] :
               ps \in [1 .. CITY_COUNT - Cardinality(visited) -> ProbValues],
               rnd \in 0 .. RDen - 1} :
           visited \in (SUBSET CityIds) \ {{}, CityIds}}

InitRoulette ==
    /\ Mount("ACO", {InitialConfig}) /\ AcoMount /\ BeesUnmounted /\ GwoUnmounted
    /\ roulette \in RouletteInputs
    /\ ExplainerUnmounted

\* The scan of the roulette wheel over the locals.
RouletteWheel ==
    /\ roulette.pc = "scan"
    /\ roulette' = [roulette EXCEPT
                        !.selected = RouletteSelect(roulette.probs, roulette.candidates,
                                                    roulette.rnd),
                        !.pc = "selected"]
    /\ UNCHANGED <<drv, narration, aco, bees, gwo>>

NextRoulette == RouletteWheel

\* One roulette-wheel selection from each input.
SpecRoulette == InitRoulette /\ [][NextRoulette]_vars

\* App: WolfSimulation and Explainer.
InitNarration ==
    /\ Mount("GWO", {InitialConfig}) /\ GwoMount /\ AcoUnmounted /\ BeesUnmounted
    /\ roulette = NoRoulette
    /\ ExplainerMount

NextNarration == GwoFrame \/ AppRender \/ ServiceSettles

SpecNarration == InitNarration /\ [][NextNarration]_vars

\* WolfSimulation left running at either end of the speed slider, with a
\* pack too small for three leaders and the smallest pack that has them.
LiveSpeeds == {0, 100}

LivePopSizes == {1, 3}

LiveConfigs == [populationSize : LivePopSizes, speed : LiveSpeeds, isRunning : {TRUE}]

InitGwoLive ==
    /\ Mount("GWO", LiveConfigs) /\ GwoMount /\ AcoUnmounted /\ BeesUnmounted
    /\ roulette = NoRoulette
    /\ ExplainerUnmounted

NextGwoLive == GwoFrame

\* The browser keeps delivering animation frames.
SpecGwoLive == InitGwoLive /\ [][NextGwoLive]_vars /\ WF_vars(GwoFrame)

\* Any of the three components.
Init == InitAco \/ InitBees \/ InitGwo

Next ==
    \/ AcoFrame
    \/ BeesFrame
    \/ GwoFrame
    \/ Timeout
    \/ AcoSetConfig
    \/ BeesSetConfig
    \/ GwoSetConfig

Spec == Init /\ [][Next]_vars

\* ---------------------------------------------------------------- claims
IsPermutation(path) == Len(path) = CITY_COUNT /\ Range(path) = CityIds

\* C1: every path an ACO tick constructs visits each of the CITY_COUNT
\* cities exactly once, whatever the draws, the pheromone levels and the
\* distances (zero distances, hence infinite or NaN roulette sums, included).
C1_PathsArePermutations ==
    mounted = "ACO" =>
        \A k \in 1 .. Len(currentAntsPaths) : IsPermutation(currentAntsPaths[k])

\* A tick of the full population on a layout where two cities coincide and a
\* third does not: the roulette of an ant on one of the two sees Infinity.
C1_Witness ==
    /\ mounted = "ACO"
    /\ iterationRef > 0
    /\ Len(currentAntsPaths) = 5
    /\ cities[0] = cities[1]
    /\ cities[0] # cities[2]

\* C2: from the all-ones matrix on, the pheromone matrix is symmetric and
\* strictly positive after every ACO tick.
C2_PheromonesSymmetricPositive ==
    mounted = "ACO" =>
        \A i \in CityIds : \A j \in CityIds :
            /\ pheromonesRef[i][j] = pheromonesRef[j][i]
            /\ pheromonesRef[i][j] # NaN
            /\ pheromonesRef[i][j] > 0

\* Two ticks have evaporated and deposited, and the edges differ in level.
C2_Witness ==
    /\ mounted = "ACO"
    /\ iterationRef = 2
    /\ \E i \in CityIds : \E j \in CityIds :
          /\ i # j
          /\ IsFinite(pheromonesRef[i][j])
          /\ pheromonesRef[i][j] > pheromonesRef[0][1]
          /\ pheromonesRef[0][1] < PHER_ONE

\* C3: the ACO best distance starts at +Infinity and never increases; it and
\* the best path change only to a strictly smaller closed-tour length of an
\* ant of the tick (a tie leaves both as they were).
C3_BestNeverIncreases ==
    /\ (mounted = "ACO" => bestDistRef = Infinity /\ bestPathRef = <<>>)
    /\ [][mounted = "ACO" =>
            /\ bestDistRef' <= bestDistRef
            /\ (bestDistRef' # bestDistRef \/ bestPathRef' # bestPathRef) =>
                  /\ bestDistRef' < bestDistRef
                  /\ \E k \in 1 .. Len(currentAntsPaths') :
                        /\ bestPathRef' = currentAntsPaths'[k]
                        /\ bestDistRef' = TourLength(currentAntsPaths'[k], cities)]_vars

\* An ant of the latest tick tied with the running best on another path and
\* did not replace it.
C3_Witness ==
    /\ mounted = "ACO"
    /\ iterationRef = 2
    /\ \E k \in 1 .. Len(currentAntsPaths) :
          /\ TourLength(currentAntsPaths[k], cities) = bestDistRef
          /\ currentAntsPaths[k] # bestPathRef

\* C4: after every Bees tick (a frame that ran to its stats) the population
\* holds exactly the configured populationSize bees, whatever ticks,
\* pause/resume, speed changes and population-size changes came before.
C4_PopulationIsConfigured ==
    (mounted = "BEES" /\ statsOut # NoStats) => Len(beesRef) = config.populationSize

\* The wolves that hold a rank.
Ranked(type) == {k \in 1 .. Len(wolvesRef) : wolvesRef[k].type = type}

\* C5: after a RANK transition (phaseRef is CALCULATE: the RANK action was
\* the latest to run) with at least three wolves, score(alpha) <=
\* score(beta) <= score(delta) <= score(w) for every omega wolf w.
C5_LeadersAreClosest ==
    (mounted = "GWO" /\ phaseRef = "CALCULATE" /\ Len(wolvesRef) >= 3) =>
        /\ \A a \in Ranked("alpha") : \A b \in Ranked("beta") :
              wolvesRef[a].score <= wolvesRef[b].score
        /\ \A b \in Ranked("beta") : \A d \in Ranked("delta") :
              wolvesRef[b].score <= wolvesRef[d].score
        /\ \A d \in Ranked("delta") : \A w \in Ranked("omega") :
              wolvesRef[d].score <= wolvesRef[w].score

\* RANK has ranked five wolves; the alpha is strictly closer than the delta,
\* and a wolf with the delta's score is an omega.
C5_Witness ==
    /\ mounted = "GWO"
    /\ phaseRef = "CALCULATE"
    /\ Len(wolvesRef) = 5
    /\ \E a \in Ranked("alpha") : \E d \in Ranked("delta") : \E w \in Ranked("omega") :
          /\ wolvesRef[a].score < wolvesRef[d].score
          /\ wolvesRef[d].score = wolvesRef[w].score

\* C6: in every state at most one wolf is alpha, at most one beta, at most
\* one delta, and every other wolf is omega; after a RANK transition the
\* first min(n, 3) ranks are held by exactly one wolf each and the ranks
\* below are unassigned (n the number of wolves).
C6_OneWolfPerRank ==
    mounted = "GWO" =>
        /\ \A k \in 1 .. Len(wolvesRef) :
              wolvesRef[k].type \in {"alpha", "beta", "delta", "omega"}
        /\ Cardinality(Ranked("alpha")) <= 1
        /\ Cardinality(Ranked("beta")) <= 1
        /\ Cardinality(Ranked("delta")) <= 1
        /\ phaseRef = "CALCULATE" =>
              /\ Cardinality(Ranked("alpha")) = (IF Len(wolvesRef) >= 1 THEN 1 ELSE 0)
              /\ Cardinality(Ranked("beta")) = (IF Len(wolvesRef) >= 2 THEN 1 ELSE 0)
              /\ Cardinality(Ranked("delta")) = (IF Len(wolvesRef) >= 3 THEN 1 ELSE 0)

\* RANK has run on a pack of one wolf: it is the alpha and there is no beta
\* and no delta.
C6_Witness ==
    /\ mounted = "GWO"
    /\ phaseRef = "CALCULATE"
    /\ Len(wolvesRef) = 1
    /\ Ranked("alpha") = {1}

\* The successor of a phase in the cycle.
PhaseSucc ==
    [ph \in Phases |-> CASE ph = "MOVE_PREY" -> "EVALUATE"
                         [] ph = "EVALUATE" -> "RANK"
                         [] ph = "RANK" -> "CALCULATE"
                         [] ph = "CALCULATE" -> "MOVE_WOLVES"
                         [] ph = "MOVE_WOLVES" -> "MOVE_PREY"]

\* A step in which the init effect of WolfSimulation runs again.
GwoReinit == config'.populationSize # config.populationSize

\* C7: the GWO phase is EVALUATE after initialization and after every
\* re-initialization; any other step that changes the phase is a tick
\* and moves it to its successor in the cycle MOVE_PREY -> EVALUATE -> RANK
\* -> CALCULATE -> MOVE_WOLVES -> MOVE_PREY.
C7_PhaseCycle ==
    /\ (mounted = "GWO" => phaseRef = "EVALUATE")
    /\ [][mounted = "GWO" =>
            /\ GwoReinit => phaseRef' = "EVALUATE"
            /\ (~GwoReinit /\ phaseRef' # phaseRef) =>
                  /\ invoked'.kind = "raf"
                  /\ phaseRef' = PhaseSucc[phaseRef]]_vars

\* The machine has gone round the five phases once and is back in EVALUATE.
C7_Witness ==
    /\ mounted = "GWO"
    /\ phaseCount = 5
    /\ phaseRef = "EVALUATE"
    /\ config.populationSize = 5

\* C8: the GWO iteration counter changes only by 1, on the MOVE_WOLVES
\* transition, and on every one (re-initialization sets it to 0); so after
\* the n-th transition since initialization it is (n + 1) \div 5: k after k
\* full cycles.
C8_IterationCountsCycles ==
    /\ [](mounted = "GWO" => iterationRef = (phaseCount + 1) \div 5)
    /\ [][mounted = "GWO" =>
            /\ (phaseRef = "MOVE_WOLVES" /\ phaseRef' = "MOVE_PREY") =>
                  iterationRef' = iterationRef + 1
            /\ (~GwoReinit /\ iterationRef' # iterationRef) =>
                  /\ phaseRef = "MOVE_WOLVES"
                  /\ phaseRef' = "MOVE_PREY"
                  /\ iterationRef' = iterationRef + 1
            /\ GwoReinit => iterationRef' = 0]_vars

\* A pack of five has completed a second MOVE_WOLVES transition after a full
\* cycle.
C8_Witness ==
    /\ mounted = "GWO"
    /\ phaseCount = 9
    /\ iterationRef = 2
    /\ Len(wolvesRef) = 5

\* C9: for each of the three components, an animation frame whose animate
\* runs with isRunning false changes no ref of the engine (iteration, best
\* score, scores, ranks, targets, positions, pheromones, phase, phase timer)
\* and passes no stats to onStatsUpdate.
C9_PausedTickIsNoOp ==
    [][(invoked'.kind = "raf" /\ ~invoked'.cfg.isRunning) =>
            /\ UNCHANGED <<iterationRef, aco, bees, gwo>>
            /\ statsOut' = NoStats]_vars

\* A paused frame has run after the engine had ticked.
C9_Witness ==
    /\ invoked.kind = "raf"
    /\ ~invoked.cfg.isRunning
    /\ iterationRef > 0
    /\ mounted = "GWO"
    /\ phaseTimerRef > 0

\* C10: ACO and Bees: in a step taken while isRunning is false (the driver
\* effect has re-run with the pausing render), no callback changes the
\* iteration counter, the best score, the pheromones or the bees.
C10_PausedMeansUntouched ==
    [][(mounted \in {"ACO", "BEES"} /\ ~config.isRunning /\ ~config'.isRunning
          /\ config'.populationSize = config.populationSize) =>
            UNCHANGED <<iterationRef, bestDistRef, bestPathRef, pheromonesRef,
                        bestRef, beesRef>>]_vars

\* C11: in every state reachable by ticks, pause/resume, speed changes and
\* population-size changes, a tick of the mounted engine completes: no step
\* ends in an uncaught TypeError from reading an undefined candidate.
C11_TicksNeverThrow == ~uncaught

\* C12: a population-size change re-initializes the mounted engine: right
\* after it the iteration counter is 0 and the best score is the engine's
\* sentinel (ACO: +Infinity with an empty best path; Bees: 0; GWO: no alpha,
\* reported as 0).
C12_PopulationChangeReinitializes ==
    [][config'.populationSize # config.populationSize =>
          /\ iterationRef' = 0
          /\ mounted = "ACO" => (bestDistRef' = Infinity /\ bestPathRef' = <<>>)
          /\ mounted = "BEES" => bestRef' = 0
          /\ mounted = "GWO" => AlphaScore(wolvesRef') = 0]_vars

\* C13: the Bees running best score is 0 after (re)initialization, never
\* decreases in a tick, and after every tick is the largest fitness any
\* tick evaluated since the last (re)initialization.
C13_BestIsMaxEvaluated ==
    /\ (mounted = "BEES" => bestRef = 0)
    /\ [](mounted = "BEES" => bestRef = evaluatedMax)
    /\ [][mounted = "BEES" =>
            IF config'.populationSize # config.populationSize
            THEN bestRef' = 0
            ELSE bestRef' >= bestRef]_vars

\* Two ticks have run and the best bee of the population is below the
\* running best: the second tick did not lower it.
C13_Witness ==
    /\ mounted = "BEES"
    /\ iterationRef = 2
    /\ statsOut # NoStats
    /\ bestRef > 0
    /\ \A k \in 1 .. Len(beesRef) : getFitness(beesRef[k].x, beesRef[k].y) < bestRef

\* C14: for every population size N the elite bees kept and the neighbours
\* they recruit, 2 * floor(0.2 * N) bees, are at most N, and the population
\* a tick leaves is the whole list the selection built: slice(0, N) discards
\* nothing, in particular no elite and no recruit.
C14_SliceKeepsElites ==
    [][(mounted = "BEES" /\ statsOut' # NoStats) =>
          /\ 2 * EliteCount(statsOut'.populationSize) <= statsOut'.populationSize
          /\ \E seed \in Seeds :
                beesRef' = NewBees(SortBees(ScoreBees(beesRef)),
                                   statsOut'.populationSize, seed)]_vars

\* A tick of ten bees has kept two elite sites, each followed by its recruit.
C14_Witness ==
    /\ mounted = "BEES"
    /\ statsOut # NoStats
    /\ statsOut.populationSize = 10
    /\ Len(beesRef) = 10
    /\ EliteCount(10) = 2
    /\ getFitness(beesRef[1].x, beesRef[1].y) = bestRef

\* C15: a GWO pack of fewer than three wolves is rejected at initialization
\* and never ticks: no running animate executes on it and no stats are
\* emitted for it.
C15_SmallPackNeverTicks ==
    [][(mounted = "GWO" /\ Len(wolvesRef) < 3) =>
          /\ ~(invoked'.kind = "raf" /\ invoked'.cfg.isRunning)
          /\ statsOut' = NoStats]_vars

Between(a, v, b) == (a <= v /\ v <= b) \/ (b <= v /\ v <= a)

\* C16: every bee is in [0, CANVAS_SIZE] on both axes in every state; every
\* wolf position is in [0, CANVAS_SIZE] in every state and a step that moves
\* a wolf leaves it between where it was and its target; once CALCULATE has
\* written the targets (three leaders exist) they are in
\* [10, CANVAS_SIZE - 10].
C16_PositionsInDomain ==
    /\ [](mounted = "BEES" =>
            \A k \in 1 .. Len(beesRef) :
                /\ Between(0, beesRef[k].x, CANVAS_SIZE)
                /\ Between(0, beesRef[k].y, CANVAS_SIZE))
    /\ [](mounted = "GWO" =>
            \A k \in 1 .. Len(wolvesRef) :
                /\ Between(0, wolvesRef[k].x, CANVAS_SIZE)
                /\ Between(0, wolvesRef[k].y, CANVAS_SIZE)
                /\ (phaseCount >= 3 /\ Len(wolvesRef) >= 3) =>
                      /\ Between(10, wolvesRef[k].targetX, CANVAS_SIZE - 10)
                      /\ Between(10, wolvesRef[k].targetY, CANVAS_SIZE - 10))
    /\ [][(mounted = "GWO" /\ ~GwoReinit) =>
            \A k \in 1 .. Len(wolvesRef) :
                /\ Between(wolvesRef[k].x, wolvesRef'[k].x, wolvesRef'[k].targetX)
                /\ Between(wolvesRef[k].y, wolvesRef'[k].y, wolvesRef'[k].targetY)]_vars

\* CALCULATE has clamped a target to the edge of its range and the wolf is
\* on its way to it.
C16_Witness ==
    /\ mounted = "GWO"
    /\ phaseRef = "MOVE_PREY"
    /\ \E k \in 1 .. Len(wolvesRef) :
          /\ wolvesRef[k].targetX \in {10, CANVAS_SIZE - 10}
          /\ wolvesRef[k].x # wolvesRef[k].targetX
          /\ wolvesRef[k].x \notin {0, 150, 300, 450}

\* C17: GWO emits a stats record on every STATS_PERIOD-th tick and on no
\* other tick (so the tick that follows an emitting tick emits nothing), and
\* an emitted record's bestScore is the alpha's score, or 0 without an alpha.
C17_StatsEveryPeriodTicks ==
    [][(mounted = "GWO" /\ invoked'.kind = "raf" /\ invoked'.cfg.isRunning) =>
          /\ (invoked.kind = "raf" /\ statsOut # NoStats) => statsOut' = NoStats
          /\ statsOut' # NoStats => statsOut'.bestScore = AlphaScore(wolvesRef')]_vars

\* C18: a roulette-wheel selection whose total desirability is zero,
\* infinite or NaN selects the last unvisited city in index order, and every
\* selection yields one of the candidates.
C18_DegenerateSelectsLast ==
    roulette.pc = "selected" =>
        /\ \E i \in 1 .. Len(roulette.candidates) : roulette.selected = roulette.candidates[i]
        /\ FSum(roulette.probs) \in {0, Infinity, NaN} =>
              roulette.selected = roulette.candidates[Len(roulette.candidates)]

\* C19: a generateAlgoExplanation promise never rejects; without an API key
\* it resolves to the static message and the service is never called; a
\* failed service call resolves to the fallback string; and no step of the
\* narration (request, answer, failure) changes the state of an engine or
\* its pending callbacks, whatever is still in flight.
C19_NarrationIsolated ==
    /\ [](lastPromise.settled # "rejected")
    /\ [](~apiKey => /\ inFlight = {}
                     /\ lastPromise.outcome = "nokey"
                     /\ lastPromise.text = NoKeyMessage
                     /\ explanation = NoKeyMessage)
    /\ [](lastPromise.outcome = "error" =>
            lastPromise.settled = "resolved" /\ lastPromise.text = Unavailable)
    /\ [][narration' # narration => UNCHANGED <<drv, roulette, aco, bees, gwo>>]_vars

\* A service call has failed, a later call is still unanswered, and the
\* engine has meanwhile completed its iterations.
C19_Witness ==
    /\ lastPromise.outcome = "error"
    /\ explanation = Unavailable
    /\ inFlight # {}
    /\ iterationRef = MaxIter
    /\ phaseCount > 0

\* C20: a running GWO tick adds the speed multiplier to the phase timer;
\* when the sum reaches PHASE_DURATION the timer becomes 0 and exactly one
\* phase transition is made, otherwise the timer keeps the sum and the phase
\* stays; so the timer is always in [0, PHASE_DURATION).
C20_TimerAndSingleTransition ==
    /\ [](mounted = "GWO" => (0 <= phaseTimerRef /\ phaseTimerRef < PHASE_DURATION))
    /\ [][(mounted = "GWO" /\ invoked'.kind = "raf" /\ invoked'.cfg.isRunning) =>
            IF phaseTimerRef + SpeedMultiplier(invoked'.cfg.speed) >= PHASE_DURATION
            THEN /\ phaseTimerRef' = 0
                 /\ phaseRef' = PhaseSucc[phaseRef]
                 /\ phaseCount' = phaseCount + 1
            ELSE /\ phaseTimerRef' = phaseTimerRef + SpeedMultiplier(invoked'.cfg.speed)
                 /\ phaseRef' = phaseRef
                 /\ phaseCount' = phaseCount]_vars

\* A tick at speed 50 has carried the timer past PHASE_DURATION and reset it,
\* after an earlier tick that only advanced it.
C20_Witness ==
    /\ mounted = "GWO"
    /\ invoked.kind = "raf" /\ invoked.cfg.isRunning /\ invoked.cfg.speed = 50
    /\ phaseTimerRef = 0
    /\ phaseCount >= 2
    /\ 2 * SpeedMultiplier(50) > PHASE_DURATION /\ SpeedMultiplier(50) < PHASE_DURATION

\* C21: while WolfSimulation keeps running and frames keep being delivered,
\* at every speed and pack size the iteration counter reaches every value
\* the model follows, by transitions that each enter the successor phase, so
\* that every phase has been entered in every iteration and none is terminal.
C21_PhasesCycleForever ==
    /\ <>(iterationRef = MaxIter /\ phaseRef = "MOVE_PREY" /\ phaseCount = 5 * MaxIter - 1)
    /\ [][phaseRef' # phaseRef =>
            /\ phaseRef' = PhaseSucc[phaseRef]
            /\ phaseCount' = phaseCount + 1
            /\ iterationRef' = IF phaseRef = "MOVE_WOLVES" THEN iterationRef + 1
                               ELSE iterationRef]_vars

\* A single wolf at speed 0 has gone through every phase of every iteration.
C21_Witness ==
    /\ mounted = "GWO"
    /\ config.speed = 0 /\ config.populationSize = 1
    /\ iterationRef = MaxIter
    /\ phaseCount = 5 * MaxIter - 1

\* The wolves of a step differ in one of the given fields.
Differs(fields) ==
    \E k \in 1 .. Len(wolvesRef) : \E f \in fields : wolvesRef'[k][f] # wolvesRef[k][f]

\* C22: outside a re-initialisation, wolf positions change only in a step
\* that ends in MOVE_WOLVES or MOVE_PREY; targets change only in the step
\* that leaves CALCULATE, scores only in the one that leaves EVALUATE, ranks
\* only in the one that leaves RANK, the prey only in the one that leaves
\* MOVE_PREY.
C22_FrameConditions ==
    [][(mounted = "GWO" /\ ~GwoReinit) =>
          /\ Len(wolvesRef') = Len(wolvesRef)
          /\ Differs({"x", "y"}) => phaseRef' \in {"MOVE_WOLVES", "MOVE_PREY"}
          /\ Differs({"targetX", "targetY"}) =>
                (phaseRef = "CALCULATE" /\ phaseRef' = "MOVE_WOLVES")
          /\ Differs({"score"}) => (phaseRef = "EVALUATE" /\ phaseRef' = "RANK")
          /\ Differs({"type"}) => (phaseRef = "RANK" /\ phaseRef' = "CALCULATE")
          /\ preyRef' # preyRef => (phaseRef = "MOVE_PREY" /\ phaseRef' = "EVALUATE")]_vars

\* In the second cycle the pack is evaluated while wolves are still short
\* of their targets, and the prey has moved.
C22_Witness ==
    /\ mounted = "GWO"
    /\ iterationRef = 1
    /\ phaseRef = "RANK"
    /\ preyRef # [x |-> CANVAS_SIZE \div 2, y |-> CANVAS_SIZE \div 2]
    /\ \E k \in 1 .. Len(wolvesRef) :
          /\ wolvesRef[k].x # wolvesRef[k].targetX
          /\ wolvesRef[k].type = "omega"

\* How often the closed tour of a path runs between cities i and j.
Traversals(path, i, j) ==
    Cardinality({t \in 1 .. Len(path) :
                    \/ path[t] = i /\ path[(t % Len(path)) + 1] = j
                    \/ path[t] = j /\ path[(t % Len(path)) + 1] = i})

\* What the first k ants add to entry [i][j]: 100 / tourLength per traversal.
RECURSIVE Deposited(_, _, _, _, _)
Deposited(paths, cts, i, j, k) ==
    IF k = 0 THEN 0
    ELSE FAdd(Deposited(paths, cts, i, j, k - 1),
              IF Traversals(paths[k], i, j) = 0 THEN 0
              ELSE IF TourLength(paths[k], cts) = 0 THEN Infinity
              ELSE Traversals(paths[k], i, j) * RoundDiv(100 * PHER_ONE, TourLength(paths[k], cts)))

\* C23: in an ACO tick every ant's path is constructed against the matrix
\* the tick started with, and every entry of the new matrix is the old one
\* times 0.9 plus, for each ant, 100 / tourLength per traversal of that edge
\* by the ant's closed tour, in either direction.
C23_TickUpdatesPheromones ==
    [][(mounted = "ACO" /\ iterationRef' = iterationRef + 1) =>
          /\ Len(currentAntsPaths') = invoked'.cfg.populationSize
          /\ \E seed \in Seeds : \A k \in 1 .. Len(currentAntsPaths') :
                currentAntsPaths'[k] = AntPath(k - 1, pheromonesRef, cities, seed)
          /\ \A i, j \in CityIds :
                pheromonesRef'[i][j] =
                    FAdd(EvaporateEntry(pheromonesRef[i][j]),
                         Deposited(currentAntsPaths', cities, i, j, Len(currentAntsPaths')))]_vars

\* After two ticks: ants on different tours, an edge that gained pheromone,
\* a diagonal entry that only evaporated.
C23_Witness ==
    /\ mounted = "ACO"
    /\ iterationRef = 2
    /\ \E a, b \in 1 .. Len(currentAntsPaths) : currentAntsPaths[a] # currentAntsPaths[b]
    /\ \E i, j \in CityIds : i # j /\ IsFinite(pheromonesRef[i][j]) /\ pheromonesRef[i][j] > PHER_ONE
    /\ pheromonesRef[0][0] = EvaporateEntry(EvaporateEntry(PHER_ONE))

\* C24: the pack always has config.populationSize wolves; a population-size
\* change leaves exactly that many wolves, all omega with score Infinity
\* and target equal to position, in phase EVALUATE with timer and iteration 0.
C24_PackMatchesConfig ==
    /\ [](mounted = "GWO" => Len(wolvesRef) = config.populationSize)
    /\ [][(mounted = "GWO" /\ GwoReinit) =>
            /\ Len(wolvesRef') = config'.populationSize
            /\ \A k \in 1 .. Len(wolvesRef') :
                  /\ wolvesRef'[k].type = "omega"
                  /\ wolvesRef'[k].score = Infinity
                  /\ wolvesRef'[k].targetX = wolvesRef'[k].x
                  /\ wolvesRef'[k].targetY = wolvesRef'[k].y
            /\ phaseRef' = "EVALUATE"
            /\ phaseTimerRef' = 0
            /\ iterationRef' = 0]_vars

\* The pack was re-initialised to one wolf after the prey had moved.
C24_Witness ==
    /\ mounted = "GWO"
    /\ invoked = NoCallback /\ changes = 1
    /\ config.populationSize = 1 /\ Len(wolvesRef) = 1
    /\ preyRef # [x |-> CANVAS_SIZE \div 2, y |-> CANVAS_SIZE \div 2]
    /\ iterationRef = 0 /\ phaseRef = "EVALUATE" /\ phaseTimerRef = 0
    /\ wolvesRef[1].score = Infinity

\* computeDim with A3 formed from the fifth draw.
computeDimIndependent(current, alphaPos, betaPos, deltaPos, iteration, seed, o) ==
    LET A == 2 * A_ONE - RoundDiv(2 * iteration * A_ONE, 1000)
        X1 == LeaderPull(A, Draw(seed, o), Draw(seed, o + 1), alphaPos, current)
        X2 == LeaderPull(A, Draw(seed, o + 2), Draw(seed, o + 3), betaPos, current)
        X3 == LeaderPull(A, Draw(seed, o + 4), Draw(seed, o + 5), deltaPos, current)
    IN RoundDiv(X1 + X2 + X3, 3 * A_ONE * RDen * RDen)

\* C25: when CALCULATE runs with three leaders, the target of every wolf is
\* the clamped mean of X1, X2, X3 in which each leader's A and C come from
\* two draws of their own: A1 from the first, A2 from the third, A3 from the
\* fifth of the six draws of an axis.
C25_IndependentCoefficients ==
    [][(/\ mounted = "GWO"
        /\ phaseRef = "CALCULATE" /\ phaseRef' = "MOVE_WOLVES"
        /\ Find(wolvesRef, "alpha") # 0 /\ Find(wolvesRef, "beta") # 0
        /\ Find(wolvesRef, "delta") # 0) =>
          \E seed \in Seeds : \A k \in 1 .. Len(wolvesRef) :
              /\ wolvesRef'[k].targetX =
                    Clamp(10, CANVAS_SIZE - 10,
                          computeDimIndependent(wolvesRef[k].x,
                              wolvesRef[Find(wolvesRef, "alpha")].x,
                              wolvesRef[Find(wolvesRef, "beta")].x,
                              wolvesRef[Find(wolvesRef, "delta")].x,
                              iterationRef, seed, 12 * (k - 1)))
              /\ wolvesRef'[k].targetY =
                    Clamp(10, CANVAS_SIZE - 10,
                          computeDimIndependent(wolvesRef[k].y,
                              wolvesRef[Find(wolvesRef, "alpha")].y,
                              wolvesRef[Find(wolvesRef, "beta")].y,
                              wolvesRef[Find(wolvesRef, "delta")].y,
                              iterationRef, seed, 12 * (k - 1) + 6))]_vars

\* C26: every stats record emitted by WolfSimulation or BeesSimulation has
\* as populationSize the number of wolves or bees in the population.
C26_StatsCarryPopulation ==
    [][statsOut' # NoStats =>
          /\ mounted = "GWO" => statsOut'.populationSize = Len(wolvesRef')
          /\ mounted = "BEES" => statsOut'.populationSize = Len(beesRef')]_vars

\* C27: a component has at most one pending callback of its animation
\* loop, and an animate that runs is the closure of the current isRunning
\* and speed (for AcoSimulation, of the whole current config).
C27_SingleLoop ==
    /\ Cardinality(pending) <= 1
    /\ invoked.kind = "raf" =>
          /\ invoked.cfg.isRunning = config.isRunning
          /\ invoked.cfg.speed = config.speed
          /\ mounted = "ACO" => invoked.cfg = config

\* The distance of wolf k to the prey, as it is in the state.
ToPrey(k) == distanceXY(wolvesRef[k].x, wolvesRef[k].y, preyRef.x, preyRef.y)

\* C28: while the phase is RANK or CALCULATE (until the action of either
\* has run) every wolf's score is its distance to the prey as both are now;
\* and when CALCULATE is about to run, no wolf outside the three leaders is
\* closer to the prey than a leader.
C28_ScoresAreCurrent ==
    (mounted = "GWO" /\ phaseRef \in {"RANK", "CALCULATE"}) =>
        /\ \A k \in 1 .. Len(wolvesRef) : wolvesRef[k].score = ToPrey(k)
        /\ phaseRef = "CALCULATE" =>
              \A l, o \in 1 .. Len(wolvesRef) :
                  (wolvesRef[l].type # "omega" /\ wolvesRef[o].type = "omega") =>
                      ToPrey(l) <= ToPrey(o)

\* The second cycle: the prey has moved, the wolves have left their first
\* positions without reaching their targets, and the pack is ranked.
C28_Witness ==
    /\ mounted = "GWO"
    /\ phaseRef = "CALCULATE"
    /\ iterationRef = 1
    /\ Len(wolvesRef) = 5
    /\ preyRef # [x |-> CANVAS_SIZE \div 2, y |-> CANVAS_SIZE \div 2]
    /\ \E k \in 1 .. Len(wolvesRef) :
          wolvesRef[k].x # wolvesRef[k].targetX /\ wolvesRef[k].type = "alpha"

\* C29: in AcoSimulation either the best distance is Infinity and the best
\* path empty, or the best path is a permutation of the cities whose closed
\* tour over the city positions has the best distance as its length; the
\* city positions never change.
C29_BestPathMatchesDistance ==
    /\ [](mounted = "ACO" =>
            \/ bestDistRef = Infinity /\ bestPathRef = <<>>
            \/ /\ IsPermutation(bestPathRef)
               /\ IsFinite(bestDistRef)
               /\ TourLength(bestPathRef, cities) = bestDistRef)
    /\ [][cities' = cities]_vars

\* The best tour was found in the first tick and no ant of the second tick
\* is on it.
C29_Witness ==
    /\ mounted = "ACO"
    /\ iterationRef = 2
    /\ bestDistRef > 0 /\ IsFinite(bestDistRef)
    /\ \A k \in 1 .. Len(currentAntsPaths) : currentAntsPaths[k] # bestPathRef

\* The largest fitness among the bees bs.
BestFitness(bs) == MaxScore(ScoreBees(bs), 0)

\* C30: in a Bees tick with populationSize >= 5 the positions of the top
\* floor(0.2 * populationSize) bees are in the next population, the best
\* fitness in the population does not decrease, and the running best is the
\* fitness of the tick's best bee; with populationSize < 5 the next
\* population consists of neighbours and scouts only.
C30_ElitesCarryBest ==
    [][(mounted = "BEES" /\ statsOut' # NoStats) =>
          IF config.populationSize >= 5
          THEN /\ \A i \in 1 .. ((2 * config.populationSize) \div 10) :
                     \E j \in 1 .. Len(beesRef') :
                         /\ beesRef'[j].x = SortBees(ScoreBees(beesRef))[i].x
                         /\ beesRef'[j].y = SortBees(ScoreBees(beesRef))[i].y
               /\ BestFitness(beesRef') >= BestFitness(beesRef)
               /\ bestRef' = BestFitness(beesRef)
          ELSE \E seed \in Seeds :
                  beesRef' = Slice(ScoutsAfter(OtherSites(0, <<>>, 0, SortBees(ScoreBees(beesRef)),
                                                          config.populationSize, seed),
                                               config.populationSize, seed),
                                   config.populationSize)]_vars

\* C31: once no narration request is outstanding, the explanation shown is
\* the response to the most recently issued request; and loading is true
\* exactly while some request is outstanding.
C31_LatestExplanationShown ==
    /\ (requests > 0 /\ inFlight = {}) => shownFor = requests
    /\ loading <=> inFlight # {}

====
